---- MODULE Spec2Model ----
(***************************************************************************)
(* A model of versioned_config's VersionedConfigObject                     *)
(* (src/config_object/versioned_config.py): conversion of a configuration  *)
(* object to and from a JSON-serializable dict, with chained migrations.   *)
(*                                                                         *)
(* Python values are records tagged by their type in field k.  A dict is   *)
(* the sequence of its items in insertion order, which is the order in     *)
(* which Python iterates it.  An object is its class-level VERSION and its *)
(* instance __dict__; the heap maps object identities to objects.          *)
(***************************************************************************)
EXTENDS Integers, Sequences, FiniteSets, TLC

VARIABLES heap, saved, call, pc

vars == <<heap, saved, call, pc>>

-----------------------------------------------------------------------------
(* Python values *)

IntVal(n) == [k |-> "int", v |-> n]

StrVal(s) == [k |-> "str", s |-> s]

NoneVal == [k |-> "none"]

\* a callable, such as a bound method or a function stored in an attribute
Function == [k |-> "function"]

\* an instance of a class that is neither a builtin nor a config object: object()
Opaque == [k |-> "object"]

\* a reference to the VersionedConfigObject with identity id
Ref(id) == [k |-> "ref", id |-> id]

Dict(items) == [k |-> "dict", items |-> items]

List(elems) == [k |-> "list", elems |-> elems]

Item(key, val) == [key |-> key, val |-> val]

-----------------------------------------------------------------------------
(* dict operations, on the sequence of items *)

DictHas(d, key) == \E i \in 1..Len(d) : d[i].key = key

DictIndex(d, key) == CHOOSE i \in 1..Len(d) : d[i].key = key

DictGet(d, key) == d[DictIndex(d, key)].val

\* d[key] = val: an existing key keeps its place, a new key goes last
DictSet(d, key, val) ==
    IF DictHas(d, key)
    THEN [d EXCEPT ![DictIndex(d, key)] = Item(key, val)]
    ELSE Append(d, Item(key, val))

DictDel(d, key) == SelectSeq(d, LAMBDA e : e.key # key)

DictKeys(d) == {d[i].key : i \in 1..Len(d)}

-----------------------------------------------------------------------------
(* the class *)

DEFAULT_CONFIG_VERSION_KEY == "config_version"

\* names that hasattr finds on the class and not in an instance's __dict__:
\* the class attribute VERSION, the property config_version_key, methods
ClassAttributes ==
    {"VERSION", "config_version_key", "to_json_serializable",
     "from_json_serializable", "add_migration", "dumps", "loads",
     "_migrate", "_is_instance_var"}

\* the attribute names of the model that start with '_'
UnderscoreNames ==
    {"_p", "_migrations", "_config_version_key", "_migrate", "_is_instance_var"}

startswith_underscore(n) == n \in UnderscoreNames

callable(obj) == obj.k = "function"

hasattr(self, attrname) ==
    DictHas(self.dict, attrname) \/ attrname \in ClassAttributes

is_serializable_builtin(obj) ==
    obj.k \in {"int", "float", "bool", "str", "list", "dict"}

\* "True", "False", or "KeyError" when self.__dict__[attrname] is evaluated
\* for a name that hasattr found on the class only
is_instance_var(self, attrname) ==
    IF ~hasattr(self, attrname) THEN "False"
    ELSE IF ~DictHas(self.dict, attrname) THEN "KeyError"
    ELSE IF callable(DictGet(self.dict, attrname)) THEN "False"
    ELSE IF startswith_underscore(attrname) THEN "False"
    ELSE "True"

\* the generator without its test of the leading underscore
instance_varname_generator_all(self) ==
    SelectSeq(self.dict, LAMBDA e : ~callable(e.val))

\* the items of __dict__ whose names the generator yields, in its order
instance_varname_generator(self) ==
    SelectSeq(self.dict,
              LAMBDA e : (~callable(e.val)) /\ (~startswith_underscore(e.key)))

\* the property without the instance's override
config_version_key_default(self) == DEFAULT_CONFIG_VERSION_KEY

config_version_key(self) ==
    IF hasattr(self, "_config_version_key")
    THEN DictGet(self.dict, "_config_version_key").s
    ELSE DEFAULT_CONFIG_VERSION_KEY

\* setattr(self, name, value); the property's setter takes config_version_key
setattr(self, name, value) ==
    IF name = "config_version_key"
    THEN [self EXCEPT !.dict = DictSet(@, "_config_version_key", value)]
    ELSE [self EXCEPT !.dict = DictSet(@, name, value)]

\* a freshly constructed instance of a class without an __init__ of its own
NewObject(version) == [VERSION |-> version, dict |-> <<>>]

-----------------------------------------------------------------------------
(* to_json_serializable *)

RECURSIVE to_json_serializable(_, _), to_json_fields(_, _, _, _)

\* the loop over the generated names, from the i-th on; attrs is the dict
\* built so far
to_json_fields(h, names, i, attrs) ==
    IF i > Len(names) THEN [exc |-> "ok", ret |-> Dict(attrs)]
    ELSE LET n == names[i].key
             obj == names[i].val
         IN IF obj.k = "ref"
            THEN LET r == to_json_serializable(h, obj.id)
                 IN IF r.exc # "ok" THEN r
                    ELSE to_json_fields(h, names, i + 1, DictSet(attrs, n, r.ret))
            ELSE IF is_serializable_builtin(obj)
            THEN to_json_fields(h, names, i + 1, DictSet(attrs, n, obj))
            ELSE [exc |-> "ObjectNotSerializableError", ret |-> NoneVal]

\* the version entry written without the test for a field of that name
to_json_version_unchecked(self, attrs) ==
    IF self.VERSION # NoneVal
    THEN [exc |-> "ok",
          ret |-> Dict(DictSet(attrs, config_version_key(self), self.VERSION))]
    ELSE [exc |-> "ok", ret |-> Dict(attrs)]

\* the version entry, for a versioned class
to_json_version(self, attrs) ==
    IF self.VERSION # NoneVal
    THEN IF DictHas(attrs, config_version_key(self))
         THEN [exc |-> "ValueError", ret |-> NoneVal]
         ELSE [exc |-> "ok",
               ret |-> Dict(DictSet(attrs, config_version_key(self), self.VERSION))]
    ELSE [exc |-> "ok", ret |-> Dict(attrs)]

\* [exc, ret]: exc is "ok" and ret the dict returned, or exc is the
\* exception raised
to_json_serializable(h, id) ==
    LET self == h[id]
        r == to_json_fields(h, instance_varname_generator(self), 1, <<>>)
    IN IF r.exc # "ok" THEN r ELSE to_json_version(self, r.ret.items)

-----------------------------------------------------------------------------
(* migrations *)

VersionedConfigMigration(from_version, to_version, migrate_func) ==
    [from_version |-> from_version, to_version |-> to_version,
     migrate_func |-> migrate_func]

\* The migration functions are supplied by the user of the class.  Three are
\* modelled: two that change the dict they are given and return that same
\* dict, as the functions of the tests do, and one that leaves its argument
\* alone and returns a changed copy.
MigrateFuncs == {"add_b", "del_c_add_y", "add_b_copy"}

\* what a migration function makes of the items d
MigrateEdit(f, d) ==
    IF f = "del_c_add_y" THEN DictSet(DictDel(d, "c"), "y", IntVal(99))
    ELSE DictSet(d, "b", IntVal(77))

MigrateInPlace(f) == f # "add_b_copy"

\* m.migrate(attrs): ret is the dict returned, arg is the dict passed in as
\* it is after the call, same tells whether ret is that very dict
Migrate(m, attrs) ==
    IF MigrateInPlace(m.migrate_func)
    THEN [ret |-> MigrateEdit(m.migrate_func, attrs),
          arg |-> MigrateEdit(m.migrate_func, attrs), same |-> TRUE]
    ELSE [ret |-> MigrateEdit(m.migrate_func, attrs), arg |-> attrs,
          same |-> FALSE]

\* _migrate's state after the migration m, the i-th, was applied with the
\* outcome r
migrate_applied(st, m, i, r) ==
    [curr_version |-> m.to_version,
     attrs |-> r.ret,
     caller |-> IF st.aliased THEN r.arg ELSE st.caller,
     aliased |-> st.aliased /\ r.same,
     applied |-> Append(st.applied, i)]

RECURSIVE migrate_loop(_, _, _)

\* the for loop of _migrate from the i-th migration on.  st.attrs is the
\* local name attrs, st.caller the dict the caller passed, st.aliased tells
\* whether the two are still one object, st.applied lists the indices of the
\* migrations applied.
migrate_loop(migrations, i, st) ==
    IF i > Len(migrations) THEN st
    ELSE IF migrations[i].from_version = st.curr_version
    THEN migrate_loop(migrations, i + 1,
             migrate_applied(st, migrations[i], i, Migrate(migrations[i], st.attrs)))
    ELSE migrate_loop(migrations, i + 1, st)

\* _migrate without the comparison of the version reached with the target
migrate_end_unchecked(st, reached) ==
    [exc |-> "ok", caller |-> st.caller, attrs |-> st.attrs,
     applied |-> st.applied]

\* how _migrate ends in the state st: it returns when the version reached
\* is the target, and raises otherwise
migrate_end(st, reached) ==
    [exc |-> IF reached THEN "ok" ELSE "VersionedConfigMigrationError",
     caller |-> st.caller, attrs |-> st.attrs, applied |-> st.applied]

migrate_start(attrs, old_version) ==
    [curr_version |-> old_version, attrs |-> attrs, caller |-> attrs,
     aliased |-> TRUE, applied |-> <<>>]

migrate_walk(self, attrs, old_version) ==
    migrate_loop(DictGet(self.dict, "_migrations").elems, 1,
                 migrate_start(attrs, old_version))

\* a loop that starts over from the first migration after it applied one
migrate_next_rescan(i, matched) == IF matched THEN 1 ELSE i + 1

\* the for statement of _migrate: after the i-th migration, whether it was
\* applied (matched) or passed over, comes the next of the list
migrate_next(i, matched) == i + 1

\* one pass of the body of the loop, for the i-th migration
migrate_iter(migrations, i, st) ==
    IF migrations[i].from_version = st.curr_version
    THEN migrate_applied(st, migrations[i], i, Migrate(migrations[i], st.attrs))
    ELSE st

\* _migrate returns nothing: what the caller has afterwards is its own dict
\* (caller).  attrs is the value of the local name when the method ends.
migrate(self, attrs, old_version, target_version) ==
    IF hasattr(self, "_migrations")
    THEN migrate_end(migrate_walk(self, attrs, old_version),
                     migrate_walk(self, attrs, old_version).curr_version
                         = target_version)
    ELSE migrate_end(migrate_start(attrs, old_version), FALSE)

add_migration(self, from_version, to_version, migration_func) ==
    LET s1 == IF ~hasattr(self, "_migrations")
              THEN setattr(self, "_migrations", List(<<>>))
              ELSE self
        m == VersionedConfigMigration(from_version, to_version, migration_func)
    IN [s1 EXCEPT !.dict = DictSet(@, "_migrations",
                      List(Append(DictGet(s1.dict, "_migrations").elems, m)))]

\* what a call leaves about the migration it ran, when it ran none
NoMigration == [invoked |-> FALSE, exc |-> "ok", applied |-> <<>>, attrs |-> <<>>]

-----------------------------------------------------------------------------
(* from_json_serializable *)

RECURSIVE from_json_serializable(_, _, _), from_json_fields(_, _, _, _)

\* the rest of the loop after the nested object's own call ended as r
from_json_nested(r, id, items, i) ==
    IF r.exc # "ok" THEN [exc |-> r.exc, heap |-> r.heap]
    ELSE from_json_fields(r.heap, id, items, i + 1)

\* the body of the loop for a key that names an instance variable, obj
\* being the variable's value
from_json_field(h, id, items, i, obj) ==
    IF obj.k = "ref"
    THEN from_json_nested(from_json_serializable(h, obj.id, items[i].val),
                          id, items, i)
    ELSE IF is_serializable_builtin(obj)
    THEN from_json_fields([h EXCEPT ![id] = setattr(@, items[i].key, items[i].val)],
                          id, items, i + 1)
    ELSE [exc |-> "ObjectNotSerializableError", heap |-> h]

\* the check of a key that passes over a key that names no instance
\* variable instead of raising
from_json_checked_lenient(h, id, items, i, isvar) ==
    IF isvar = "KeyError" THEN [exc |-> "KeyError", heap |-> h]
    ELSE IF isvar = "False" THEN from_json_fields(h, id, items, i + 1)
    ELSE from_json_field(h, id, items, i, DictGet(h[id].dict, items[i].key))

\* the check of the i-th key, isvar being what _is_instance_var made of it
from_json_checked(h, id, items, i, isvar) ==
    IF isvar = "KeyError" THEN [exc |-> "KeyError", heap |-> h]
    ELSE IF isvar = "False" THEN [exc |-> "InvalidFieldName", heap |-> h]
    ELSE from_json_field(h, id, items, i, DictGet(h[id].dict, items[i].key))

\* the loop over the keys of attrs (its items), from the i-th on
from_json_fields(h, id, items, i) ==
    IF i > Len(items) THEN [exc |-> "ok", heap |-> h]
    ELSE from_json_checked(h, id, items, i, is_instance_var(h[id], items[i].key))

MigrationOf(m) ==
    [invoked |-> TRUE, exc |-> m.exc, applied |-> m.applied, attrs |-> m.attrs]

\* after _migrate ended as m: del attrs[key], on the caller's dict
from_json_migrated(key, m) ==
    IF m.exc # "ok"
    THEN [exc |-> m.exc, attrs |-> m.caller, migration |-> MigrationOf(m)]
    ELSE IF ~DictHas(m.caller, key)
    THEN [exc |-> "KeyError", attrs |-> m.caller, migration |-> MigrationOf(m)]
    ELSE [exc |-> "ok", attrs |-> DictDel(m.caller, key),
          migration |-> MigrationOf(m)]

\* the version handling: [exc, attrs, migration], attrs being the items
\* left for the loop over the fields
from_json_version(self, attrs, key) ==
    IF DictHas(attrs, key)
    THEN IF DictGet(attrs, key) # self.VERSION
         THEN from_json_migrated(key,
                  migrate(self, attrs, DictGet(attrs, key), self.VERSION))
         ELSE [exc |-> "ok", attrs |-> DictDel(attrs, key),
               migration |-> NoMigration]
    ELSE [exc |-> "ok", attrs |-> attrs, migration |-> NoMigration]

from_json_populate(v, r) ==
    [exc |-> r.exc, heap |-> r.heap, migration |-> v.migration]

from_json_versioned(h, id, v) ==
    IF v.exc # "ok"
    THEN [exc |-> v.exc, heap |-> h, migration |-> v.migration]
    ELSE from_json_populate(v, from_json_fields(h, id, v.attrs, 1))

\* [exc, heap, migration]: heap is the heap the call leaves, whether it
\* returns (exc is "ok") or raises; migration is what the receiver's own
\* _migrate did
from_json_serializable(h, id, attrs) ==
    IF attrs.k # "dict"
    THEN [exc |-> "TypeError", heap |-> h, migration |-> NoMigration]
    ELSE from_json_versioned(h, id,
             from_json_version(h[id], attrs.items, config_version_key(h[id])))

-----------------------------------------------------------------------------
(* the program that uses the class: it constructs objects and sets them up
   (pc = "setup"), then either loads a dict into the object, or dumps the
   object, constructs a default instance of the same classes and loads the
   dump into it.  call records the last call of to_json_serializable or
   from_json_serializable: its receiver, its argument, the heap before it,
   and what it returned or raised. *)

MaxAttrs == 2

NumVersions == 3

MaxSteps == 2

MaxDepth == 5

NoCall ==
    [op |-> "none", obj |-> 0, arg |-> NoneVal, pre |-> <<>>, exc |-> "ok",
     ret |-> NoneVal, migration |-> NoMigration]

\* the identity of the root object, and of the default instance made of it
Root == 1

Twin(h, id) == id + Cardinality(DOMAIN h)

\* the object a constructor that sets the same attributes leaves for self:
\* public data attributes hold the default 0, an attribute that holds a
\* nested config object holds a new default instance of it
DefaultInstance(h, self) ==
    [self EXCEPT !.dict =
        [i \in 1..Len(self.dict) |->
            LET e == self.dict[i]
            IN IF e.val.k = "ref" THEN Item(e.key, Ref(Twin(h, e.val.id)))
               ELSE IF is_serializable_builtin(e.val) /\ ~startswith_underscore(e.key)
               THEN Item(e.key, IntVal(0))
               ELSE e]]

SetAttr(id, n, v) ==
    /\ pc = "setup"
    /\ id \in DOMAIN heap
    /\ ~DictHas(heap[id].dict, n)
    /\ Cardinality(DictKeys(heap[id].dict) \ {"_config_version_key"}) < MaxAttrs
    /\ heap' = [heap EXCEPT ![id] = setattr(@, n, v)]
    /\ UNCHANGED <<saved, call, pc>>

SetConfigVersionKey(id, key) ==
    /\ pc = "setup"
    /\ id \in DOMAIN heap
    /\ ~hasattr(heap[id], "_config_version_key")
    /\ heap' = [heap EXCEPT ![id] = setattr(@, "config_version_key", StrVal(key))]
    /\ UNCHANGED <<saved, call, pc>>

AddMigration(id, from_version, to_version, func) ==
    /\ pc = "setup"
    /\ id \in DOMAIN heap
    /\ hasattr(heap[id], "_migrations")
          => Len(DictGet(heap[id].dict, "_migrations").elems) < MaxSteps
    /\ heap' = [heap EXCEPT ![id] = add_migration(@, from_version, to_version, func)]
    /\ UNCHANGED <<saved, call, pc>>

\* d = obj.to_json_serializable(); an exception ends the program
ToJson(id) ==
    /\ pc = "setup"
    /\ id \in DOMAIN heap
    /\ LET r == to_json_serializable(heap, id)
       IN /\ call' = [op |-> "to_json", obj |-> id, arg |-> NoneVal, pre |-> heap,
                      exc |-> r.exc, ret |-> r.ret, migration |-> NoMigration]
          /\ saved' = r.ret
          /\ pc' = IF r.exc = "ok" THEN "dumped" ELSE "done"
    /\ UNCHANGED heap

\* a default instance of every object of the heap is constructed
Construct ==
    /\ pc = "dumped"
    /\ heap' = [id \in 1..(2 * Cardinality(DOMAIN heap)) |->
                  IF id \in DOMAIN heap THEN heap[id]
                  ELSE DefaultInstance(heap, heap[id - Cardinality(DOMAIN heap)])]
    /\ pc' = "fresh"
    /\ UNCHANGED <<saved, call>>

FromJson(id, attrs) ==
    LET r == from_json_serializable(heap, id, attrs)
    IN /\ call' = [op |-> "from_json", obj |-> id, arg |-> attrs, pre |-> heap,
                   exc |-> r.exc, ret |-> NoneVal, migration |-> r.migration]
       /\ heap' = r.heap
       /\ pc' = "done"
       /\ UNCHANGED saved

\* obj.from_json_serializable(attrs) for a dict from elsewhere
Load(id, attrs) ==
    /\ pc = "setup"
    /\ id \in DOMAIN heap
    /\ FromJson(id, attrs)

\* the dump is loaded into the default instance
Reload ==
    /\ pc = "fresh"
    /\ FromJson(Root + (Cardinality(DOMAIN heap) \div 2), saved)

\* the list _migrate loops over; an object without _migrations has no loop
MigrationList(self) ==
    IF hasattr(self, "_migrations")
    THEN DictGet(self.dict, "_migrations").elems
    ELSE <<>>

\* obj._migrate(attrs, attrs[key], obj.VERSION) is entered: call.st is the
\* state of the method's local names, call.i the place of the for loop
MigrateCall(id, attrs) ==
    /\ pc = "setup"
    /\ id \in DOMAIN heap
    /\ DictHas(attrs.items, config_version_key(heap[id]))
    /\ call' = [op |-> "_migrate", obj |-> id, arg |-> attrs, pre |-> heap,
                exc |-> "ok", ret |-> NoneVal, migration |-> NoMigration,
                i |-> 1,
                st |-> migrate_start(attrs.items,
                          DictGet(attrs.items, config_version_key(heap[id])))]
    /\ pc' = "loop"
    /\ UNCHANGED <<heap, saved>>

\* one iteration of the for loop of _migrate
MigrateIter ==
    /\ pc = "loop"
    /\ call.i <= Len(MigrationList(heap[call.obj]))
    /\ call' = [call EXCEPT
           !.st = migrate_iter(MigrationList(heap[call.obj]), call.i, call.st),
           !.i = migrate_next(call.i,
                    MigrationList(heap[call.obj])[call.i].from_version
                       = call.st.curr_version)]
    /\ UNCHANGED <<heap, saved, pc>>

\* the loop is over, or there was none: _migrate returns or raises
MigrateReturn ==
    /\ pc = "loop"
    /\ call.i > Len(MigrationList(heap[call.obj]))
    /\ call' = [call EXCEPT
           !.exc = migrate_end(call.st,
                       /\ hasattr(heap[call.obj], "_migrations")
                       /\ call.st.curr_version = heap[call.obj].VERSION).exc,
           !.migration = MigrationOf(migrate_end(call.st,
                       /\ hasattr(heap[call.obj], "_migrations")
                       /\ call.st.curr_version = heap[call.obj].VERSION))]
    /\ pc' = "done"
    /\ UNCHANGED <<heap, saved>>

-----------------------------------------------------------------------------
(* Spec: one object without nested objects *)

FieldNames == {"a", "b", "_p", "config_version"}

FieldValues == {IntVal(1), Function, Opaque}

VersionKeyNames == {"abcdefg", "a"}

VersionNames == <<"1.0.0", "1.0.1", "1.0.2", "1.0.3", "1.0.4", "1.0.5">>

Versions == {StrVal(VersionNames[i]) : i \in 1..NumVersions}

\* The dicts loaded: some of the keys a and b in either order with the
\* value 7, and at most one more item at any place among them: a key the
\* object may not have, the name of a private attribute, of a method, of
\* the class attribute, of the property, or a version entry.
PlainKeys == {<<>>, <<"a">>, <<"b">>, <<"a", "b">>, <<"b", "a">>}

PlainItems(keys) == [i \in 1..Len(keys) |-> Item(keys[i], IntVal(7))]

ExtraItems ==
    {Item(n, IntVal(7)) :
        n \in {"zz", "_p", "dumps", "VERSION", "config_version_key",
               "config_version"}}
    \cup {Item("config_version", StrVal(VersionNames[1]))}

InsertAt(s, i, e) == SubSeq(s, 1, i - 1) \o <<e>> \o SubSeq(s, i, Len(s))

InputTrees ==
    {Dict(PlainItems(keys)) : keys \in PlainKeys}
    \cup {Dict(InsertAt(PlainItems(keys), i, e)) :
            <<keys, i, e>> \in
                {t \in PlainKeys \X (1..3) \X ExtraItems : t[2] <= Len(t[1]) + 1}}

Init ==
    /\ \E version \in {NoneVal, StrVal(VersionNames[1])} :
          heap = (Root :> NewObject(version))
    /\ saved = NoneVal
    /\ call = NoCall
    /\ pc = "setup"

Next ==
    \/ \E n \in FieldNames, v \in FieldValues : SetAttr(Root, n, v)
    \/ \E key \in VersionKeyNames : SetConfigVersionKey(Root, key)
    \/ ToJson(Root)
    \/ Construct
    \/ Reload
    \/ \E attrs \in InputTrees : Load(Root, attrs)

Spec == Init /\ [][Next]_vars

-----------------------------------------------------------------------------
(* SpecMig: a versioned object and its migrations *)

CurrentVersion == StrVal(VersionNames[NumVersions])

\* the constructor of the class sets the fields of the current version
MigInit ==
    /\ heap = (Root :> [VERSION |-> CurrentVersion,
                        dict |-> <<Item("a", IntVal(1)), Item("b", IntVal(2)),
                                   Item("y", IntVal(4))>>])
    /\ saved = NoneVal
    /\ call = NoCall
    /\ pc = "setup"

\* dicts written by an earlier version of the class
MigrationTrees ==
    {Dict(<<Item("config_version", v), Item("a", IntVal(66)),
            Item("c", IntVal(14134))>>) : v \in Versions}
    \cup {Dict(<<Item("a", IntVal(66)), Item("config_version", v)>>) :
            v \in Versions}

MigNext ==
    \/ \E f \in Versions, t \in Versions, func \in MigrateFuncs :
          AddMigration(Root, f, t, func)
    \/ \E attrs \in MigrationTrees : Load(Root, attrs)

SpecMig == MigInit /\ [][MigNext]_vars

-----------------------------------------------------------------------------
(* SpecWalk: a call of _migrate, one iteration of its loop at a time, on an
   object with any list of migrations: chains, cycles, self-loops.  The
   method runs in the caller's thread and nothing suspends it, so an
   iteration that can be made is made. *)

\* the migration functions of the walk: one that changes its dict and one
\* that returns a copy
WalkFuncs == {"add_b", "add_b_copy"}

\* the dicts migrated, one of each version
WalkTrees ==
    {Dict(<<Item("config_version", v), Item("a", IntVal(66)),
            Item("c", IntVal(14134))>>) : v \in Versions}

WalkNext ==
    \/ \E f \in Versions, t \in Versions, func \in WalkFuncs :
          AddMigration(Root, f, t, func)
    \/ \E attrs \in WalkTrees : MigrateCall(Root, attrs)
    \/ MigrateIter
    \/ MigrateReturn

SpecWalk ==
    /\ MigInit
    /\ [][WalkNext]_vars
    /\ WF_vars(MigrateIter)
    /\ WF_vars(MigrateReturn)

-----------------------------------------------------------------------------
(* SpecNest: config objects nested in one another, level i + 1 being the
   attribute v2 of level i *)

LevelKinds == {"plain", "versioned", "guarded", "reserved"}

\* what the constructor of a level's class sets between v1 and v2
LevelExtras(kind) ==
    IF kind = "guarded"
    THEN <<Item("_p", IntVal(5)), Item("custom_method", Function)>>
    ELSE IF kind = "reserved"
    THEN <<Item("config_version", IntVal(222))>>
    ELSE <<>>

LevelObject(kind, level, depth) ==
    [VERSION |-> IF kind = "versioned" THEN StrVal(VersionNames[1]) ELSE NoneVal,
     dict |-> <<Item("v1", IntVal(level))>> \o LevelExtras(kind)
              \o <<Item("v2", IF level < depth THEN Ref(level + 1)
                              ELSE IntVal(9999))>>]

NestInit ==
    /\ \E depth \in 1..MaxDepth :
          \E kinds \in [1..depth -> LevelKinds] :
             heap = [level \in 1..depth |-> LevelObject(kinds[level], level, depth)]
    /\ saved = NoneVal
    /\ call = NoCall
    /\ pc = "setup"

NestNext ==
    \/ ToJson(Root)
    \/ Construct
    \/ Reload

SpecNest == NestInit /\ [][NestNext]_vars

-----------------------------------------------------------------------------
(* what the properties speak of *)

\* the public fields of an object: the instance attributes whose name has
\* no leading underscore and whose value is not callable
PublicFieldNames(o) ==
    {n \in DictKeys(o.dict) :
        n \notin UnderscoreNames /\ DictGet(o.dict, n).k # "function"}

Field(o, n) == DictGet(o.dict, n)

Primitive(v) == v.k \in {"int", "float", "bool", "str", "list", "dict"}

AllPrimitive(o) == \A n \in PublicFieldNames(o) : Primitive(Field(o, n))

Versioned(o) == o.VERSION # NoneVal

\* the name under which the object's version goes into a dict
ActiveVersionKey(o) ==
    IF DictHas(o.dict, "_config_version_key")
    THEN Field(o, "_config_version_key").s
    ELSE "config_version"

\* the last call was x.from_json_serializable / x.to_json_serializable
Loaded == call.op = "from_json" /\ call.obj = Root /\ pc = "done"

Reloaded == call.op = "from_json" /\ call.obj # Root /\ pc = "done"

Dumped == call.op = "to_json" /\ call.obj = Root

-----------------------------------------------------------------------------
(* C1 *)

\* C1: round trip.  When an unversioned object x whose public fields all
\* hold primitive values was dumped and the dump loaded into a freshly
\* constructed default instance with the same field names, the load
\* returned normally and every public field of the instance equals that
\* field of x, whatever the fields are called.
C1_RoundTrip ==
    (Reloaded /\ ~Versioned(heap[Root]) /\ AllPrimitive(heap[Root]))
    => /\ call.exc = "ok"
       /\ \A n \in PublicFieldNames(heap[Root]) :
             Field(heap[call.obj], n) = Field(heap[Root], n)

\* The round trip does hold of the objects none of whose public fields is
\* called by the object's version key.
RoundTripOfOtherNames ==
    (Reloaded /\ ~Versioned(heap[Root]) /\ AllPrimitive(heap[Root])
        /\ ActiveVersionKey(heap[Root]) \notin PublicFieldNames(heap[Root]))
    => /\ call.exc = "ok"
       /\ \A n \in PublicFieldNames(heap[Root]) :
             Field(heap[call.obj], n) = Field(heap[Root], n)

RoundTripOfOtherNamesReached ==
    /\ Reloaded /\ ~Versioned(heap[Root]) /\ AllPrimitive(heap[Root])
    /\ ActiveVersionKey(heap[Root]) \notin PublicFieldNames(heap[Root])
    /\ Cardinality(PublicFieldNames(heap[Root])) = 2
    /\ call.pre[call.obj] # heap[call.obj]

-----------------------------------------------------------------------------
(* C4, C5 *)

\* the i-th key of the dict loaded is the one key that the object has no
\* attribute for, every other key names a public field that holds a
\* primitive value, and the dict has no version entry
OneUndeclaredKey(i) ==
    /\ Loaded
    /\ call.arg.k = "dict"
    /\ i \in 1..Len(call.arg.items)
    /\ ~hasattr(call.pre[Root], call.arg.items[i].key)
    /\ \A j \in 1..Len(call.arg.items) :
          j # i => /\ call.arg.items[j].key \in PublicFieldNames(call.pre[Root])
                   /\ Primitive(Field(call.pre[Root], call.arg.items[j].key))
    /\ ~DictHas(call.arg.items, ActiveVersionKey(call.pre[Root]))

\* C4 as stated: a load of valid keys and one undeclared key raises
\* InvalidFieldName and leaves every field as it was before the call,
\* wherever the undeclared key stands.
C4_AllOrNothing ==
    \A i \in 1..3 :
       OneUndeclaredKey(i) => call.exc = "InvalidFieldName" /\ heap = call.pre

\* C4 as amended: such a load raises InvalidFieldName; the fields whose keys
\* stand before the undeclared key hold the values of the dict, and every
\* other attribute is as it was before the call.
C4_PrefixApplied ==
    \A i \in 1..3 :
       OneUndeclaredKey(i) =>
          /\ call.exc = "InvalidFieldName"
          /\ DOMAIN heap = DOMAIN call.pre
          /\ heap[Root].VERSION = call.pre[Root].VERSION
          /\ DictKeys(heap[Root].dict) = DictKeys(call.pre[Root].dict)
          /\ \A n \in DictKeys(heap[Root].dict) :
                Field(heap[Root], n) =
                   IF \E j \in 1..(i - 1) : call.arg.items[j].key = n
                   THEN DictGet(call.arg.items, n)
                   ELSE Field(call.pre[Root], n)

\* the undeclared key stands between two valid keys: the field before it
\* was assigned, the field after it was not
C4_Witness ==
    /\ OneUndeclaredKey(2)
    /\ Len(call.arg.items) = 3
    /\ call.exc = "InvalidFieldName"
    /\ Field(heap[Root], call.arg.items[1].key) = IntVal(7)
    /\ Field(call.pre[Root], call.arg.items[1].key) = IntVal(1)
    /\ Field(heap[Root], call.arg.items[3].key) = IntVal(1)

\* the i-th key of the dict loaded does not name a public field of the
\* object, every other key names a public field that holds a primitive
\* value, and the dict has no version entry
OneIllegalKey(i) ==
    /\ Loaded
    /\ call.arg.k = "dict"
    /\ i \in 1..Len(call.arg.items)
    /\ call.arg.items[i].key \notin PublicFieldNames(call.pre[Root])
    /\ \A j \in 1..Len(call.arg.items) :
          j # i => /\ call.arg.items[j].key \in PublicFieldNames(call.pre[Root])
                   /\ Primitive(Field(call.pre[Root], call.arg.items[j].key))
    /\ ~DictHas(call.arg.items, ActiveVersionKey(call.pre[Root]))

\* C5: closed world.  A load of a dict with a key that names no public,
\* non-callable instance field of the object (a key the object lacks, a
\* key with a leading underscore, the name of a method, of a class
\* attribute or of a property) raises InvalidFieldName and no other error.
C5_ClosedWorld ==
    \A i \in 1..3 : OneIllegalKey(i) => call.exc = "InvalidFieldName"

\* The keys that hasattr does not find on the class are rejected as stated.
ClosedWorldOfInstanceNames ==
    \A i \in 1..3 :
       (OneIllegalKey(i) /\ call.arg.items[i].key \notin ClassAttributes)
       => call.exc = "InvalidFieldName"

-----------------------------------------------------------------------------
(* C6, C7 *)

\* C6: reserved name.  Dumping a versioned object that has a public field
\* called by its version key raises the reserved-name error (ValueError) and
\* returns no dict; dumping an unversioned object with such a field returns
\* a dict that holds the field's own value under that name and has no entry
\* besides the public fields.
C6_ReservedName ==
    (Dumped /\ AllPrimitive(call.pre[Root])
        /\ ActiveVersionKey(call.pre[Root]) \in PublicFieldNames(call.pre[Root]))
    => IF Versioned(call.pre[Root])
       THEN call.exc = "ValueError" /\ call.ret = NoneVal
       ELSE /\ call.exc = "ok"
            /\ call.ret.k = "dict"
            /\ DictKeys(call.ret.items) = PublicFieldNames(call.pre[Root])
            /\ Len(call.ret.items) = Cardinality(PublicFieldNames(call.pre[Root]))
            /\ DictGet(call.ret.items, ActiveVersionKey(call.pre[Root]))
                  = Field(call.pre[Root], ActiveVersionKey(call.pre[Root]))

\* a versioned object with a field called config_version and one more field
\* was dumped, and the dump was refused
C6_Witness ==
    /\ Dumped /\ AllPrimitive(call.pre[Root]) /\ Versioned(call.pre[Root])
    /\ ActiveVersionKey(call.pre[Root]) = "config_version"
    /\ PublicFieldNames(call.pre[Root]) = {"a", "config_version"}
    /\ call.exc = "ValueError"

\* the unversioned object of the same fields was dumped
ReservedNameUnversionedReached ==
    /\ Dumped /\ AllPrimitive(call.pre[Root]) /\ ~Versioned(call.pre[Root])
    /\ PublicFieldNames(call.pre[Root]) = {"a", "config_version"}
    /\ ActiveVersionKey(call.pre[Root]) = "config_version"
    /\ call.exc = "ok"

\* config_version_key was set to a name K other than the default on a
\* versioned object none of whose public fields is called K
KeyOverridden ==
    /\ Dumped
    /\ Versioned(call.pre[Root])
    /\ DictHas(call.pre[Root].dict, "_config_version_key")
    /\ ActiveVersionKey(call.pre[Root]) # "config_version"
    /\ ActiveVersionKey(call.pre[Root]) \notin PublicFieldNames(call.pre[Root])
    /\ AllPrimitive(call.pre[Root])

\* C7: version-key override.  The dump of such an object maps K to the
\* class VERSION, has exactly one entry more than the object has public
\* fields, has no entry for the override itself, and holds a field called
\* "config_version" as an ordinary field with its own value.
C7_VersionKeyOverride ==
    KeyOverridden
    => /\ call.exc = "ok"
       /\ call.ret.k = "dict"
       /\ DictHas(call.ret.items, ActiveVersionKey(call.pre[Root]))
       /\ DictGet(call.ret.items, ActiveVersionKey(call.pre[Root]))
             = call.pre[Root].VERSION
       /\ Len(call.ret.items) = Cardinality(PublicFieldNames(call.pre[Root])) + 1
       /\ ~DictHas(call.ret.items, "_config_version_key")
       /\ ~DictHas(call.ret.items, "config_version_key")
       /\ IF "config_version" \in PublicFieldNames(call.pre[Root])
          THEN /\ DictHas(call.ret.items, "config_version")
               /\ DictGet(call.ret.items, "config_version")
                     = Field(call.pre[Root], "config_version")
          ELSE ~DictHas(call.ret.items, "config_version")

C7_Witness ==
    /\ KeyOverridden
    /\ ActiveVersionKey(call.pre[Root]) = "abcdefg"
    /\ PublicFieldNames(call.pre[Root]) = {"b", "config_version"}
    /\ call.exc = "ok"
    /\ Len(call.ret.items) = 3

-----------------------------------------------------------------------------
(* C2, C3, C10: migrations *)

\* the migrations registered on an object, in the order of registration
Migrations(o) ==
    IF DictHas(o.dict, "_migrations") THEN Field(o, "_migrations").elems ELSE <<>>

\* the version a dict names for the object
Embedded(o, attrs) == DictGet(attrs.items, ActiveVersionKey(o))

\* a dict whose version is not the object's was loaded
LoadedOldVersion ==
    /\ Loaded
    /\ DictHas(call.arg.items, ActiveVersionKey(call.pre[Root]))
    /\ Embedded(call.pre[Root], call.arg) # call.pre[Root].VERSION

\* ms is a chain v0 -> v1 -> ... -> vn of distinct versions, registered in
\* that order
InOrderChain(ms) ==
    /\ Len(ms) >= 1
    /\ \A i \in 1..(Len(ms) - 1) : ms[i].to_version = ms[i + 1].from_version
    /\ \A i, j \in 1..Len(ms) : i # j => ms[i].to_version # ms[j].to_version
    /\ \A i \in 1..Len(ms) : ms[i].to_version # ms[1].from_version

RECURSIVE Transformed(_, _, _)

\* the dict that results from d by the transforms of ms, from the i-th on,
\* each given what the one before it returned
Transformed(ms, i, d) ==
    IF i > Len(ms) THEN d
    ELSE Transformed(ms, i + 1, MigrateEdit(ms[i].migrate_func, d))

\* the fields of the object are those of the dict d: every key of d names
\* a field with the value d has for it, the fields d has no key for are as
\* before the call, and the object has no attribute besides those it had
PopulatedFrom(d) ==
    /\ call.exc = "ok"
    /\ DictKeys(heap[Root].dict) = DictKeys(call.pre[Root].dict)
    /\ \A n \in DictKeys(heap[Root].dict) :
          Field(heap[Root], n) =
             IF DictHas(d, n) THEN DictGet(d, n) ELSE Field(call.pre[Root], n)

\* the steps of the object are a chain from the dict's version to VERSION,
\* and what the chain makes of the dict has no key but names of fields
ChainToCurrent ==
    /\ LoadedOldVersion
    /\ InOrderChain(Migrations(call.pre[Root]))
    /\ Migrations(call.pre[Root])[1].from_version
          = Embedded(call.pre[Root], call.arg)
    /\ Migrations(call.pre[Root])[Len(Migrations(call.pre[Root]))].to_version
          = call.pre[Root].VERSION
    /\ DictKeys(Transformed(Migrations(call.pre[Root]), 1, call.arg.items))
          \ {ActiveVersionKey(call.pre[Root])}
          \subseteq PublicFieldNames(call.pre[Root])

\* C2: chained migration.  When the steps are a chain v0 -> ... -> vn
\* registered in that order, vn the object's VERSION, a load of a dict of
\* version v0 applies every step once in the order of the chain and
\* populates the fields from the migrated dict: a key a step added has the
\* step's value, a key a step removed is not assigned and is no attribute
\* of the object, any other key has the value of the dict loaded.
C2_ChainedMigration ==
    ChainToCurrent
    => /\ call.migration.applied
             = [i \in 1..Len(Migrations(call.pre[Root])) |-> i]
       /\ PopulatedFrom(DictDel(
              Transformed(Migrations(call.pre[Root]), 1, call.arg.items),
              ActiveVersionKey(call.pre[Root])))

\* every step of the object changes the dict it is given and returns it
StepsInPlace ==
    \A i \in 1..Len(Migrations(call.pre[Root])) :
       MigrateInPlace(Migrations(call.pre[Root])[i].migrate_func)

\* The chained migration does hold of the chains whose steps all change the
\* dict they are given.
ChainedMigrationInPlace ==
    (ChainToCurrent /\ StepsInPlace)
    => /\ call.migration.applied
             = [i \in 1..Len(Migrations(call.pre[Root])) |-> i]
       /\ PopulatedFrom(DictDel(
              Transformed(Migrations(call.pre[Root]), 1, call.arg.items),
              ActiveVersionKey(call.pre[Root])))

\* a chain of two steps, one adding b and one removing c and adding y, was
\* applied to a dict with the key c
ChainedMigrationInPlaceReached ==
    /\ ChainToCurrent /\ StepsInPlace
    /\ Len(Migrations(call.pre[Root])) = 2
    /\ Migrations(call.pre[Root])[1].migrate_func = "add_b"
    /\ Migrations(call.pre[Root])[2].migrate_func = "del_c_add_y"
    /\ DictHas(call.arg.items, "c")
    /\ call.exc = "ok"
    /\ Field(heap[Root], "a") = IntVal(66)
    /\ Field(heap[Root], "b") = IntVal(77)
    /\ Field(heap[Root], "y") = IntVal(99)
    /\ ~DictHas(heap[Root].dict, "c")

RECURSIVE CanReach(_, _, _, _)

\* some path of at most n steps of ms leads from version a to version b
CanReach(ms, a, b, n) ==
    /\ n > 0
    /\ \E i \in 1..Len(ms) :
          /\ ms[i].from_version = a
          /\ (ms[i].to_version = b \/ CanReach(ms, ms[i].to_version, b, n - 1))

\* the steps of the object do not lead from the dict's version to VERSION:
\* there are none, or no path of steps joins the two versions, or they are
\* a chain registered in order that ends at another version
NoWayToCurrent ==
    /\ LoadedOldVersion
    /\ \/ ~DictHas(call.pre[Root].dict, "_migrations")
       \/ ~CanReach(Migrations(call.pre[Root]),
                    Embedded(call.pre[Root], call.arg), call.pre[Root].VERSION,
                    Len(Migrations(call.pre[Root])))
       \/ /\ InOrderChain(Migrations(call.pre[Root]))
          /\ Migrations(call.pre[Root])[Len(Migrations(call.pre[Root]))].to_version
                # call.pre[Root].VERSION

\* C3: migration failure.  A load of a dict of another version, when the
\* registered steps do not lead to VERSION, raises
\* VersionedConfigMigrationError and leaves every field of the object with
\* the value it had before the call.
C3_MigrationFailure ==
    NoWayToCurrent
    => /\ call.exc = "VersionedConfigMigrationError"
       /\ heap = call.pre

\* a step was applied to the dict, the chain ended short of VERSION, and
\* the load failed
C3_Witness ==
    /\ NoWayToCurrent
    /\ Len(call.migration.applied) >= 1
    /\ DictHas(call.arg.items, "a")
    /\ Field(call.pre[Root], "a") # DictGet(call.arg.items, "a")
    /\ call.exc = "VersionedConfigMigrationError"
    /\ heap = call.pre

\* the object has no migrations at all and the load failed
MigrationFailureNoStepsReached ==
    /\ NoWayToCurrent
    /\ ~DictHas(call.pre[Root].dict, "_migrations")
    /\ call.exc = "VersionedConfigMigrationError"

RECURSIVE ReferenceWalk(_, _, _, _)

\* the walk of the specification: from the version current, take the first
\* step in registration order whose from_version is current, apply it, go
\* on from its to_version; stop when no step matches.  n bounds the length
\* of the walk, which an acyclic list of steps never reaches.
ReferenceWalk(ms, current, applied, n) ==
    IF n = 0 \/ ~\E i \in 1..Len(ms) : ms[i].from_version = current
    THEN [current |-> current, applied |-> applied]
    ELSE LET i == CHOOSE i \in 1..Len(ms) :
                     /\ ms[i].from_version = current
                     /\ \A j \in 1..(i - 1) : ms[j].from_version # current
         IN ReferenceWalk(ms, ms[i].to_version, Append(applied, i), n - 1)

Acyclic(ms) ==
    \A i \in 1..Len(ms) :
       ~CanReach(ms, ms[i].from_version, ms[i].from_version, Len(ms))

\* C10: the chain walk.  For an acyclic list of steps in any order of
\* registration, _migrate applies the steps the reference walk applies, in
\* the same order, and returns exactly when the reference walk ends at the
\* target version.
C10_ChainWalk ==
    (Loaded /\ call.migration.invoked /\ Acyclic(Migrations(call.pre[Root])))
    => /\ call.migration.applied
             = ReferenceWalk(Migrations(call.pre[Root]),
                             Embedded(call.pre[Root], call.arg), <<>>,
                             Len(Migrations(call.pre[Root])) + 1).applied
       /\ (call.migration.exc = "ok")
             = (ReferenceWalk(Migrations(call.pre[Root]),
                              Embedded(call.pre[Root], call.arg), <<>>,
                              Len(Migrations(call.pre[Root])) + 1).current
                   = call.pre[Root].VERSION)

\* _migrate and the reference walk do agree on the chains registered in
\* the order of the chain.
ChainWalkInOrder ==
    (Loaded /\ call.migration.invoked /\ InOrderChain(Migrations(call.pre[Root])))
    => /\ call.migration.applied
             = ReferenceWalk(Migrations(call.pre[Root]),
                             Embedded(call.pre[Root], call.arg), <<>>,
                             Len(Migrations(call.pre[Root])) + 1).applied
       /\ (call.migration.exc = "ok")
             = (ReferenceWalk(Migrations(call.pre[Root]),
                              Embedded(call.pre[Root], call.arg), <<>>,
                              Len(Migrations(call.pre[Root])) + 1).current
                   = call.pre[Root].VERSION)

-----------------------------------------------------------------------------
(* C11: what the fields are populated from after a migration *)

RECURSIVE TransformedBy(_, _, _, _)

\* the dict that results from d by the transforms of the steps of ms whose
\* indices the sequence applied lists, from the k-th of them on, each given
\* what the one before it returned
TransformedBy(ms, applied, k, d) ==
    IF k > Len(applied) THEN d
    ELSE TransformedBy(ms, applied, k + 1,
                       MigrateEdit(ms[applied[k]].migrate_func, d))

\* what the steps that _migrate applied in the last call make of the dict
\* loaded, without the version entry
MigratedTree ==
    DictDel(TransformedBy(Migrations(call.pre[Root]), call.migration.applied,
                          1, call.arg.items),
            ActiveVersionKey(call.pre[Root]))

\* _migrate was called by the load, applied a step at least and returned,
\* and what the steps make of the dict has no key but names of fields
MigrationSucceeded ==
    /\ Loaded
    /\ call.migration.invoked
    /\ call.migration.exc = "ok"
    /\ Len(call.migration.applied) >= 1
    /\ DictKeys(MigratedTree) \subseteq PublicFieldNames(call.pre[Root])

\* C11: migration is tree-to-tree.  After a successful migration the load
\* populates the fields of the object from the dict obtained by passing the
\* dict loaded through the transforms of the steps applied, in the order
\* they were applied, each transform given the dict the one before it
\* returned, the fields taken from the dict the last one returned.
C11_TreeToTree ==
    MigrationSucceeded => PopulatedFrom(MigratedTree)

\* every step that was applied changes the dict it is given and returns it
AppliedInPlace ==
    \A k \in 1..Len(call.migration.applied) :
       MigrateInPlace(
           Migrations(call.pre[Root])[call.migration.applied[k]].migrate_func)

\* The fields are populated from the migrated dict when every step applied
\* changed the dict it was given.
TreeToTreeInPlace ==
    (MigrationSucceeded /\ AppliedInPlace) => PopulatedFrom(MigratedTree)

\* two steps that change their dict were applied and the fields hold what
\* the second returned
TreeToTreeInPlaceReached ==
    /\ MigrationSucceeded /\ AppliedInPlace
    /\ Len(call.migration.applied) = 2
    /\ call.exc = "ok"
    /\ Field(heap[Root], "b") = IntVal(77)
    /\ Field(heap[Root], "y") = IntVal(99)

\* a step that returns a new dict was applied and the load returned
TreeToTreeCopyReached ==
    /\ MigrationSucceeded /\ ~AppliedInPlace
    /\ call.exc = "ok"

-----------------------------------------------------------------------------
(* C12: termination of _migrate *)

\* _migrate is running / has ended
Migrating == pc = "loop" /\ call.op = "_migrate"

Migrated == pc = "done" /\ call.op = "_migrate"

\* the sequence of indices is strictly increasing: no index twice, and in
\* the order of registration
Increasing(applied) ==
    \A j, k \in 1..Len(applied) : j < k => applied[j] < applied[k]

\* the steps applied so far are steps of the list, each at most once, in
\* registration order
AppliedOnceInOrder ==
    /\ Increasing(call.st.applied)
    /\ \A k \in 1..Len(call.st.applied) :
          call.st.applied[k] \in 1..Len(Migrations(heap[Root]))

\* _migrate has returned or raised VersionedConfigMigrationError
ReturnedOrRaised ==
    /\ Migrated
    /\ call.exc \in {"ok", "VersionedConfigMigrationError"}
    /\ call.migration.applied = call.st.applied

\* C12: for every list of registered steps, lists with a cycle or a
\* self-loop included, a call of _migrate terminates, returning or raising
\* VersionedConfigMigrationError, and all along it has invoked the
\* transform of each registered step at most once, in registration order.
C12_Termination ==
    /\ [](call.op = "_migrate" => AppliedOnceInOrder)
    /\ (Migrating ~> ReturnedOrRaised)

\* the steps A -> B and B -> A were both applied, once each, to a dict of
\* version A, and _migrate raised, the version reached not being VERSION
C12_Witness ==
    /\ ReturnedOrRaised
    /\ Len(Migrations(heap[Root])) = 2
    /\ Migrations(heap[Root])[1].from_version = Migrations(heap[Root])[2].to_version
    /\ Migrations(heap[Root])[1].to_version = Migrations(heap[Root])[2].from_version
    /\ Migrations(heap[Root])[1].from_version # Migrations(heap[Root])[1].to_version
    /\ call.st.applied = <<1, 2>>
    /\ call.exc = "VersionedConfigMigrationError"

\* a self-loop on VERSION was applied once to a dict of that version, and
\* _migrate returned
TerminationOfSelfLoopReached ==
    /\ ReturnedOrRaised
    /\ \E k \in 1..Len(Migrations(heap[Root])) :
          /\ Migrations(heap[Root])[k].from_version = heap[Root].VERSION
          /\ Migrations(heap[Root])[k].to_version = heap[Root].VERSION
          /\ call.st.applied = <<k>>
    /\ call.exc = "ok"

\* The loop taken one iteration at a time ends as the method taken as a
\* whole does.
WalkAgrees ==
    Migrated
    => /\ call.exc = migrate(heap[Root], call.arg.items,
                           Embedded(heap[Root], call.arg), heap[Root].VERSION).exc
       /\ call.migration
             = MigrationOf(migrate(heap[Root], call.arg.items,
                                   Embedded(heap[Root], call.arg),
                                   heap[Root].VERSION))

-----------------------------------------------------------------------------
(* C8, C9: nested objects *)

RECURSIVE ExactKeys(_, _, _)

\* the keys of the dict tree are the public fields of the object id, and
\* its version key when it is versioned, each once; and so at every level
\* below
ExactKeys(h, id, tree) ==
    /\ tree.k = "dict"
    /\ DictKeys(tree.items) =
          PublicFieldNames(h[id])
          \cup (IF Versioned(h[id]) THEN {ActiveVersionKey(h[id])} ELSE {})
    /\ Len(tree.items) = Cardinality(DictKeys(tree.items))
    /\ \A n \in PublicFieldNames(h[id]) :
          Field(h[id], n).k = "ref"
          => ExactKeys(h, Field(h[id], n).id, DictGet(tree.items, n))

\* C8: underscore and callable exclusion.  The keys of a dict that
\* to_json_serializable returns are exactly the instance attributes whose
\* name has no leading underscore and whose value is not callable, plus the
\* version key of a versioned object, at every level of nesting.
C8_Exclusion ==
    (Dumped /\ call.exc = "ok") => ExactKeys(call.pre, Root, call.ret)

\* some level below the root has a private attribute and a callable one
C8_Witness ==
    /\ Dumped /\ call.exc = "ok"
    /\ \E id \in DOMAIN call.pre :
          /\ id > Root
          /\ DictHas(call.pre[id].dict, "_p")
          /\ DictHas(call.pre[id].dict, "custom_method")
    /\ \E id \in DOMAIN call.pre : Versioned(call.pre[id])

RECURSIVE Placed(_, _, _)

\* the dict tree holds the primitive fields of the object id under their
\* names and the dict of each nested object under the name of its field
Placed(h, id, tree) ==
    /\ tree.k = "dict"
    /\ \A n \in PublicFieldNames(h[id]) :
          /\ DictHas(tree.items, n)
          /\ IF Field(h[id], n).k = "ref"
             THEN Placed(h, Field(h[id], n).id, DictGet(tree.items, n))
             ELSE DictGet(tree.items, n) = Field(h[id], n)

RECURSIVE Restored(_, _, _, _)

\* the object t holds the primitive fields of the object s, and where s
\* holds a nested object, t holds the nested object it held in the heap
\* before, which is restored from the nested object of s
Restored(h, before, s, t) ==
    \A n \in PublicFieldNames(h[s]) :
       /\ DictHas(h[t].dict, n)
       /\ IF Field(h[s], n).k = "ref"
          THEN /\ Field(h[t], n) = Field(before[t], n)
               /\ Field(h[t], n).k = "ref"
               /\ Restored(h, before, Field(h[s], n).id, Field(h[t], n).id)
          ELSE Field(h[t], n) = Field(h[s], n)

\* C9: nesting.  The dump of a graph of nested objects holds each nested
\* object's dict under its field name; loading it into a default instance
\* of the same shape returns normally, restores the primitive fields of
\* every level and leaves every nested-object field referring to the
\* nested object it referred to.
C9_Nesting ==
    /\ (Dumped /\ call.exc = "ok") => Placed(call.pre, Root, call.ret)
    /\ Reloaded => /\ call.exc = "ok"
                   /\ Restored(heap, call.pre, Root, call.obj)

\* no unversioned object of the graph has a public field called by its
\* version key
OrdinaryNames(h) ==
    \A id \in DOMAIN h :
       Versioned(h[id]) \/ ActiveVersionKey(h[id]) \notin PublicFieldNames(h[id])

\* The nesting does hold of the graphs of such objects.
NestingOfOrdinaryNames ==
    /\ (Dumped /\ call.exc = "ok") => Placed(call.pre, Root, call.ret)
    /\ (Reloaded /\ OrdinaryNames(heap))
          => /\ call.exc = "ok"
             /\ Restored(heap, call.pre, Root, call.obj)

\* five levels were dumped and loaded
NestingOfOrdinaryNamesReached ==
    /\ Reloaded /\ OrdinaryNames(heap)
    /\ Cardinality(DOMAIN heap) = 10
    /\ call.exc = "ok"
    /\ Field(heap[10], "v1") = IntVal(5)
    /\ Field(call.pre[10], "v1") = IntVal(0)
    /\ Field(heap[9], "v2") = Ref(10)

====
